---- MODULE Spec2Model ----
\* picolog: a tiny levelled logger (syslog levels, nested subloggers) and its
\* level-name parser.  The logger part is a state machine over a heap of
\* Logger values and the contents of the destination files; the level-name
\* part is a pair of pure functions applied to enumerated inputs.
EXTENDS Integers, Sequences, FiniteSets, TLC

VARIABLES
    loggers,    \* heap of Logger structs; a *Logger is an index into it
    files,      \* contents of each *os.File: the sequence of lines written
    status,     \* "running", "exited" (os.Exit) or "panicked" (nil dereference)
    ncalls,     \* number of Printf calls (direct or through a wrapper) made
    made,       \* how each Logger was made: [parent, arg] (history, per pointer)
    pc,         \* position of the level-name driver
    in_str,     \* string handed to ParseLogLevel
    in_lvl,     \* LogLevel handed to String
    out_str,    \* string returned by String
    out_lvl,    \* LogLevel returned by ParseLogLevel
    out_err     \* whether ParseLogLevel returned a non-nil error

logvars == <<loggers, files, status, ncalls, made>>
lvlvars == <<pc, in_str, in_lvl, out_str, out_lvl, out_err>>
vars == <<loggers, files, status, ncalls, made, pc, in_str, in_lvl, out_str, out_lvl, out_err>>

-----------------------------------------------------------------------------
\* Bounds of the model.

MaxLoggers == 3
MaxCalls == 2
LevelMargin == 2

-----------------------------------------------------------------------------
\* LogLevel: the syslog severities (log/syslog: LOG_EMERG = 0 .. LOG_DEBUG = 7).

LogEmerg == 0
LogAlert == 1
LogCrit == 2
LogErr == 3
LogWarning == 4
LogNotice == 5
LogInfo == 6
LogDebug == 7

Levels == LogEmerg..LogDebug

\* Destinations.  Stderr is os.Stderr; the others are files the caller opened.
Stderr == "stderr"
UserFiles == {"fo"}
Files == UserFiles \cup {Stderr}
NilFile == "nil"

Prefixes == {"a", "b"}
Formats == {"m"}

-----------------------------------------------------------------------------
\* log.Logger and bufio.Writer as NewLogger builds them.

Ldate == "Ldate"
Ltime == "Ltime"
Lshortfile == "Lshortfile"

NilLogger == [nil |-> TRUE, prefix |-> "", flags |-> {}]
NilWriter == [nil |-> TRUE, buf |-> <<>>]

\* var l Logger / new(Logger): every field at its zero value.
ZeroLogger ==
    [logLevel |-> 0, logger |-> NilLogger, writer |-> NilWriter,
     destStream |-> NilFile, prefix |-> "", subloggers |-> <<>>,
     initialized |-> FALSE]

NewLogger(logLevel, subpackage, dest) ==
    LET flags == IF logLevel = LogDebug THEN {Ldate, Ltime, Lshortfile}
                 ELSE {Ldate, Ltime}
        renderedPrefix == "[" \o subpackage \o "] "
    IN  [logLevel |-> logLevel,
         logger |-> [nil |-> FALSE, prefix |-> renderedPrefix, flags |-> flags],
         writer |-> [nil |-> FALSE, buf |-> <<>>],
         destStream |-> dest,
         prefix |-> subpackage,
         subloggers |-> <<>>,
         initialized |-> TRUE]

NewDefaultLogger == NewLogger(LogDebug, "default", Stderr)

\* The method assigns the new logger to its own copy of the pointer l; the
\* Logger that the caller's l points at stays as it was.
initializeDefaultLogger(h, l) ==
    LET defaultLogger == NewDefaultLogger
    IN  h

ensureInitialized(h, l) ==
    IF ~h[l].initialized THEN initializeDefaultLogger(h, l) ELSE h

\* log.Logger.Output: prefix, date and time, file:line when Lshortfile is set,
\* the message, and a newline.
Output(lg, msg) ==
    lg.prefix
        \o (IF Ldate \in lg.flags THEN "<date> " ELSE "")
        \o (IF Ltime \in lg.flags THEN "<time> " ELSE "")
        \o (IF Lshortfile \in lg.flags THEN "<file:line>: " ELSE "")
        \o msg \o "\n"

\* bufio.Writer.Write of one line (far below the buffer size): buffered.
Write(w, line) == [w EXCEPT !.buf = Append(@, line)]

\* bufio.Writer.Flush: the buffered lines go to the file, the buffer empties.
FlushFiles(fs, w, dest) == [fs EXCEPT ![dest] = @ \o w.buf]
FlushWriter(w) == [w EXCEPT !.buf = <<>>]

\* fmt.Sprintf(format) with no arguments, for formats without verbs.
Sprintf(format) == format

\* A plausible slip: the threshold itself is filtered out (< for <=).
PrintfStrict(h, fs, l, format, level) ==
    LET h1 == ensureInitialized(h, l)
        lg == h1[l]
    IN  IF level < lg.logLevel
        THEN IF lg.logger.nil
             THEN [loggers |-> h1, files |-> fs, panicked |-> TRUE]
             ELSE LET w1 == Write(lg.writer, Output(lg.logger, Sprintf(format)))
                  IN  [loggers |-> [h1 EXCEPT ![l].writer = FlushWriter(w1)],
                       files |-> FlushFiles(fs, w1, lg.destStream),
                       panicked |-> FALSE]
        ELSE [loggers |-> h1, files |-> fs, panicked |-> FALSE]

\* A plausible slip: the line is left in the bufio.Writer (no Flush).
PrintfNoFlush(h, fs, l, format, level) ==
    LET h1 == ensureInitialized(h, l)
        lg == h1[l]
    IN  IF level <= lg.logLevel
        THEN IF lg.logger.nil
             THEN [loggers |-> h1, files |-> fs, panicked |-> TRUE]
             ELSE LET w1 == Write(lg.writer, Output(lg.logger, Sprintf(format)))
                  IN  [loggers |-> [h1 EXCEPT ![l].writer = w1],
                       files |-> fs,
                       panicked |-> FALSE]
        ELSE [loggers |-> h1, files |-> fs, panicked |-> FALSE]

\* Printf on heap h and files fs: the heap and files after the call, and
\* whether the call panicked (Output through a nil *log.Logger).
Printf(h, fs, l, format, level) ==
    LET h1 == ensureInitialized(h, l)
        lg == h1[l]
    IN  IF level <= lg.logLevel
        THEN IF lg.logger.nil
             THEN [loggers |-> h1, files |-> fs, panicked |-> TRUE]
             ELSE LET w1 == Write(lg.writer, Output(lg.logger, Sprintf(format)))
                  IN  [loggers |-> [h1 EXCEPT ![l].writer = FlushWriter(w1)],
                       files |-> FlushFiles(fs, w1, lg.destStream),
                       panicked |-> FALSE]
        ELSE [loggers |-> h1, files |-> fs, panicked |-> FALSE]

\* A plausible slip: the two arguments of the Sprintf swapped.
NewSubLoggerSwapped(h, l, prefix) ==
    LET subPrefix == prefix \o "][" \o h[l].prefix
        sub == NewLogger(h[l].logLevel, subPrefix, h[l].destStream)
        h1 == Append(h, sub)
    IN  [h1 EXCEPT ![l].subloggers = Append(@, Len(h1))]

\* A plausible slip: the sublogger gets the default level, not the parent's.
NewSubLoggerDefaultLevel(h, l, prefix) ==
    LET subPrefix == h[l].prefix \o "][" \o prefix
        sub == NewLogger(LogDebug, subPrefix, h[l].destStream)
        h1 == Append(h, sub)
    IN  [h1 EXCEPT ![l].subloggers = Append(@, Len(h1))]

\* A plausible slip: the extended prefix is stored in the parent as well.
NewSubLoggerRenamesParent(h, l, prefix) ==
    LET subPrefix == h[l].prefix \o "][" \o prefix
        sub == NewLogger(h[l].logLevel, subPrefix, h[l].destStream)
        h1 == Append(h, sub)
    IN  [h1 EXCEPT ![l].subloggers = Append(@, Len(h1)),
                   ![l].prefix = subPrefix]

NewSubLogger(h, l, prefix) ==
    LET subPrefix == h[l].prefix \o "][" \o prefix
        sub == NewLogger(h[l].logLevel, subPrefix, h[l].destStream)
        h1 == Append(h, sub)
    IN  [h1 EXCEPT ![l].subloggers = Append(@, Len(h1))]

-----------------------------------------------------------------------------
\* Calls.

Ptrs == 1..Len(loggers)

CallNewLogger(logLevel, subpackage, dest) ==
    /\ status = "running"
    /\ Len(loggers) < MaxLoggers
    /\ loggers' = Append(loggers, NewLogger(logLevel, subpackage, dest))
    /\ made' = Append(made, [parent |-> 0, arg |-> subpackage])
    /\ UNCHANGED <<files, status, ncalls, lvlvars>>

CallZeroLogger ==
    /\ status = "running"
    /\ Len(loggers) < MaxLoggers
    /\ loggers' = Append(loggers, ZeroLogger)
    /\ made' = Append(made, [parent |-> 0, arg |-> ""])
    /\ UNCHANGED <<files, status, ncalls, lvlvars>>

CallNewSubLogger(l, prefix) ==
    /\ status = "running"
    /\ Len(loggers) < MaxLoggers
    /\ loggers' = NewSubLogger(loggers, l, prefix)
    /\ made' = Append(made, [parent |-> l, arg |-> prefix])
    /\ UNCHANGED <<files, status, ncalls, lvlvars>>

PrintfStep(l, format, level) ==
    /\ status = "running"
    /\ ncalls < MaxCalls
    /\ LET r == Printf(loggers, files, l, format, level)
       IN  /\ loggers' = r.loggers
           /\ files' = r.files
           /\ status' = IF r.panicked THEN "panicked" ELSE status
    /\ ncalls' = ncalls + 1
    /\ UNCHANGED <<made, lvlvars>>

CallPrintf(l, format, level) == PrintfStep(l, format, level)
Debugf(l, format) == PrintfStep(l, format, LogDebug)
Errorf(l, format) == PrintfStep(l, format, LogErr)
Warningf(l, format) == PrintfStep(l, format, LogWarning)
Infof(l, format) == PrintfStep(l, format, LogInfo)
Emergf(l, format) == PrintfStep(l, format, LogEmerg)
Alertf(l, format) == PrintfStep(l, format, LogAlert)
Noticef(l, format) == PrintfStep(l, format, LogNotice)

FatalfLevel == LogErr

Fatalf(l, format) ==
    /\ status = "running"
    /\ ncalls < MaxCalls
    /\ LET r == Printf(loggers, files, l, format, FatalfLevel)
       IN  /\ loggers' = r.loggers
           /\ files' = r.files
           /\ status' = IF r.panicked THEN "panicked" ELSE "exited"
    /\ ncalls' = ncalls + 1
    /\ UNCHANGED <<made, lvlvars>>

Init ==
    /\ loggers = <<>>
    /\ files = [f \in Files |-> <<>>]
    /\ status = "running"
    /\ ncalls = 0
    /\ made = <<>>
    /\ pc = "idle"
    /\ in_str = ""
    /\ in_lvl = 0
    /\ out_str = ""
    /\ out_lvl = 0
    /\ out_err = FALSE

\* The caller makes one root, by NewLogger on an open file or as a zero-value
\* Logger, then makes subloggers of initialized loggers and logs through any
\* logger, in any order.  Writes to the files succeed.
Next ==
    \/ \E t \in Levels, p \in Prefixes, d \in UserFiles :
          loggers = <<>> /\ CallNewLogger(t, p, d)
    \/ loggers = <<>> /\ CallZeroLogger
    \/ \E l \in Ptrs, p \in Prefixes : loggers[l].initialized /\ CallNewSubLogger(l, p)
    \/ \E l \in Ptrs, m \in Formats, s \in Levels : CallPrintf(l, m, s)
    \/ \E l \in Ptrs, m \in Formats : Debugf(l, m)
    \/ \E l \in Ptrs, m \in Formats : Errorf(l, m)
    \/ \E l \in Ptrs, m \in Formats : Warningf(l, m)
    \/ \E l \in Ptrs, m \in Formats : Infof(l, m)
    \/ \E l \in Ptrs, m \in Formats : Emergf(l, m)
    \/ \E l \in Ptrs, m \in Formats : Alertf(l, m)
    \/ \E l \in Ptrs, m \in Formats : Noticef(l, m)
    \/ \E l \in Ptrs, m \in Formats : Fatalf(l, m)

Spec == Init /\ [][Next]_vars

-----------------------------------------------------------------------------
\* Level names: ParseLogLevel and LogLevel.String.

UpperLetters == "ABCDEFGHIJKLMNOPQRSTUVWXYZ"
LowerLetters == "abcdefghijklmnopqrstuvwxyz"

CharAt(s, i) == SubSeq(s, i, i)
Rest(s) == SubSeq(s, 2, Len(s))

\* Position of character c in string s, 0 when absent.
IndexOf(c, s) ==
    IF \E i \in 1..Len(s) : CharAt(s, i) = c
    THEN CHOOSE i \in 1..Len(s) : CharAt(s, i) = c
    ELSE 0

ToLowerChar(c) ==
    LET i == IndexOf(c, UpperLetters)
    IN  IF i = 0 THEN c ELSE CharAt(LowerLetters, i)

\* strings.ToLower on ASCII text.
RECURSIVE ToLower(_)
ToLower(s) ==
    IF s = "" THEN "" ELSE ToLowerChar(CharAt(s, 1)) \o ToLower(Rest(s))

\* A plausible slip: the switch compares the string as given.
ParseLogLevelCaseSensitive(level) ==
    CASE level = "emerg" -> [level |-> LogEmerg, err |-> FALSE]
      [] level = "alert" -> [level |-> LogAlert, err |-> FALSE]
      [] level = "crit" -> [level |-> LogCrit, err |-> FALSE]
      [] level = "err" -> [level |-> LogErr, err |-> FALSE]
      [] level = "warning" -> [level |-> LogWarning, err |-> FALSE]
      [] level = "notice" -> [level |-> LogNotice, err |-> FALSE]
      [] level = "info" -> [level |-> LogInfo, err |-> FALSE]
      [] level = "debug" -> [level |-> LogDebug, err |-> FALSE]
      [] OTHER -> [level |-> 0, err |-> TRUE]

\* A plausible slip: the fall-through returns a nil error.
ParseLogLevelNoError(level) ==
    LET r == ParseLogLevelCaseSensitive(ToLower(level))
    IN  [r EXCEPT !.err = FALSE]

\* The level and whether the error is non-nil.
ParseLogLevel(level) ==
    LET lower == ToLower(level)
    IN  CASE lower = "emerg" -> [level |-> LogEmerg, err |-> FALSE]
          [] lower = "alert" -> [level |-> LogAlert, err |-> FALSE]
          [] lower = "crit" -> [level |-> LogCrit, err |-> FALSE]
          [] lower = "err" -> [level |-> LogErr, err |-> FALSE]
          [] lower = "warning" -> [level |-> LogWarning, err |-> FALSE]
          [] lower = "notice" -> [level |-> LogNotice, err |-> FALSE]
          [] lower = "info" -> [level |-> LogInfo, err |-> FALSE]
          [] lower = "debug" -> [level |-> LogDebug, err |-> FALSE]
          [] OTHER -> [level |-> 0, err |-> TRUE]

\* A plausible slip: the long spelling of one name.
StringLongErr(l) ==
    CASE l = LogEmerg -> "emerg"
      [] l = LogAlert -> "alert"
      [] l = LogCrit -> "crit"
      [] l = LogErr -> "error"
      [] l = LogWarning -> "warning"
      [] l = LogNotice -> "notice"
      [] l = LogInfo -> "info"
      [] l = LogDebug -> "debug"
      [] OTHER -> "invalid log level"

String(l) ==
    CASE l = LogEmerg -> "emerg"
      [] l = LogAlert -> "alert"
      [] l = LogCrit -> "crit"
      [] l = LogErr -> "err"
      [] l = LogWarning -> "warning"
      [] l = LogNotice -> "notice"
      [] l = LogInfo -> "info"
      [] l = LogDebug -> "debug"
      [] OTHER -> "invalid log level"

\* Inputs of the level-name driver: every upper/lower-case spelling of the
\* eight names, and strings that are none of them.
LevelNames ==
    <<"emerg", "alert", "crit", "err", "warning", "notice", "info", "debug">>
UpperLevelNames ==
    <<"EMERG", "ALERT", "CRIT", "ERR", "WARNING", "NOTICE", "INFO", "DEBUG">>

ToUpperChar(c) ==
    LET i == IndexOf(c, LowerLetters)
    IN  IF i = 0 THEN c ELSE CharAt(UpperLetters, i)

RECURSIVE Spellings(_)
Spellings(s) ==
    IF s = "" THEN {""}
    ELSE {c \o r : c \in {CharAt(s, 1), ToUpperChar(CharAt(s, 1))},
                   r \in Spellings(Rest(s))}

RecognizedSpellings ==
    UNION {Spellings(LevelNames[i]) : i \in 1..Len(LevelNames)}

OtherStrings ==
    {"", "invalid", "INVALID", "invalid log level", "warn", "error",
     "emergency", "critical", "debugg", "inf", "nfo", "7", "LOG_INFO",
     " info", "info ", "in fo", "trace", "fatal", "e", "errr"}

StringInputs == RecognizedSpellings \cup OtherStrings
LevelInputs == (LogEmerg - LevelMargin)..(LogDebug + LevelMargin)

CallParseLogLevel ==
    /\ pc = "start"
    /\ LET r == ParseLogLevel(in_str)
       IN  out_lvl' = r.level /\ out_err' = r.err
    /\ pc' = "parsed"
    /\ UNCHANGED <<in_str, in_lvl, out_str, logvars>>

CallString ==
    /\ pc = "start"
    /\ out_str' = String(in_lvl)
    /\ pc' = "rendered"
    /\ UNCHANGED <<in_str, in_lvl, out_lvl, out_err, logvars>>

CallParseRendered ==
    /\ pc = "rendered"
    /\ LET r == ParseLogLevel(out_str)
       IN  out_lvl' = r.level /\ out_err' = r.err
    /\ pc' = "reparsed"
    /\ UNCHANGED <<in_str, in_lvl, out_str, logvars>>

InitLevels ==
    /\ loggers = <<>>
    /\ files = [f \in Files |-> <<>>]
    /\ status = "running"
    /\ ncalls = 0
    /\ made = <<>>
    /\ pc = "start"
    /\ in_str \in StringInputs
    /\ in_lvl \in LevelInputs
    /\ out_str = ""
    /\ out_lvl = 0
    /\ out_err = FALSE

NextLevels ==
    \/ CallParseLogLevel
    \/ CallString
    \/ CallParseRendered

SpecLevels == InitLevels /\ [][NextLevels]_vars

-----------------------------------------------------------------------------
\* Properties of the level names (checked under SpecLevels).

\* C3: for each of the eight levels L, ParseLogLevel of the all-lowercase
\* name of L and of the all-uppercase name of L returns L and a nil error.
C3_ParseBothCases ==
    pc = "parsed" =>
        \A i \in 1..Len(LevelNames) :
            in_str \in {LevelNames[i], UpperLevelNames[i]} =>
                out_lvl = i - 1 /\ ~out_err

C3_Witness ==
    pc = "parsed" /\ in_str = "WARNING" /\ out_lvl = LogWarning /\ ~out_err

\* C4: ParseLogLevel returns a nil error exactly for the strings that are one
\* of the eight names in some mix of upper and lower case; every other string
\* ("invalid", the empty string, ...) gets a non-nil error.
C4_ParseRejectsOthers ==
    pc = "parsed" => (out_err <=> in_str \notin RecognizedSpellings)

C4_Witness ==
    pc = "parsed" /\ in_str = "" /\ out_err

\* C9: String followed by ParseLogLevel gives back each of the eight levels
\* with a nil error; for a value outside 0..7 String gives "invalid log level"
\* and ParseLogLevel rejects that string.
C9_RoundTrip ==
    /\ pc = "rendered" =>
           (in_lvl \notin Levels => out_str = "invalid log level")
    /\ pc = "reparsed" =>
           IF in_lvl \in Levels
           THEN out_lvl = in_lvl /\ ~out_err
           ELSE out_str = "invalid log level" /\ out_err

C9_Witness ==
    pc = "reparsed" /\ in_lvl = LogErr /\ out_str = "err" /\ out_lvl = LogErr
        /\ ~out_err

-----------------------------------------------------------------------------
\* Properties of the logger (checked under Spec).

BeginsWith(s, p) == Len(s) >= Len(p) /\ SubSeq(s, 1, Len(p)) = p
EndsWith(s, p) == Len(s) >= Len(p) /\ SubSeq(s, Len(s) - Len(p) + 1, Len(s)) = p
IsPrefixOf(a, b) == Len(a) <= Len(b) /\ SubSeq(b, 1, Len(a)) = a

\* The prefixes p0, p1, ..., pn given when logger l and its ancestors were made.
RECURSIVE Chain(_)
Chain(l) ==
    IF made[l].parent = 0 THEN <<made[l].arg>>
    ELSE Append(Chain(made[l].parent), made[l].arg)

RECURSIVE Brackets(_)
Brackets(ps) ==
    IF ps = <<>> THEN "" ELSE "[" \o Head(ps) \o "]" \o Brackets(Tail(ps))

\* "[p0][p1]...[pn] "
RenderedChain(l) == Brackets(Chain(l)) \o " "

\* A Printf call on l with the given severity: direct, through a wrapper
\* (the same step), or the one inside Fatalf.
PrintfCalled(l, format, level) ==
    /\ ncalls' = ncalls + 1
    /\ \/ CallPrintf(l, format, level)
       \/ level = FatalfLevel /\ Fatalf(l, format)

\* The step appends exactly one line to file d and leaves the other files alone.
AppendsOneLine(d) ==
    /\ Len(files'[d]) = Len(files[d]) + 1
    /\ SubSeq(files'[d], 1, Len(files[d])) = files[d]
    /\ \A f \in Files \ {d} : files'[f] = files[f]

\* C1: Printf with severity S on an initialized logger with threshold T
\* appends exactly one line to the logger's destination when S <= T and
\* appends nothing to any destination when S > T.
C1_Filter ==
    [][\A l \in Ptrs, m \in Formats, S \in Levels :
          (PrintfCalled(l, m, S) /\ loggers[l].initialized) =>
              IF S <= loggers[l].logLevel
              THEN AppendsOneLine(loggers[l].destStream)
              ELSE files' = files]_vars

\* One INFO logger, two calls, one line: one call passed and one was dropped.
C1_Witness ==
    /\ Len(loggers) = 1 /\ loggers[1].initialized
    /\ loggers[1].logLevel = LogInfo
    /\ status = "running" /\ ncalls = 2
    /\ Len(files[loggers[1].destStream]) = 1

\* C2: the rendered prefix of a logger made by NewLogger(p0) and n nested
\* NewSubLogger(p1) ... NewSubLogger(pn) is "[p0][p1]...[pn] ", and every line
\* the logger emits begins with it.
C2_NestedPrefix ==
    /\ [](\A l \in Ptrs : loggers[l].initialized =>
              loggers[l].logger.prefix = RenderedChain(l))
    /\ [][\A l \in Ptrs, m \in Formats, S \in Levels :
             (PrintfCalled(l, m, S) /\ files' # files) =>
                 LET d == loggers[l].destStream
                 IN  BeginsWith(files'[d][Len(files'[d])], RenderedChain(l))]_vars

\* A grandchild (chain of three prefixes) has emitted a line.
C2_Witness ==
    \E l \in Ptrs :
        /\ Len(Chain(l)) = 3
        /\ \E i \in 1..Len(files[loggers[l].destStream]) :
               BeginsWith(files[loggers[l].destStream][i], RenderedChain(l))

\* Whether a Printf of severity S on l would write, and to which files.
WritesTo(l, S) ==
    {f \in Files : Printf(loggers, files, l, "m", S).files[f] # files[f]}

\* C5: a sublogger has the threshold and the destination of its parent, so
\* it emits a message of severity S iff its parent would, into the same file.
C5_SubLoggerInherits ==
    \A l \in Ptrs :
        made[l].parent # 0 =>
            LET p == made[l].parent
            IN  /\ loggers[l].logLevel = loggers[p].logLevel
                /\ loggers[l].destStream = loggers[p].destStream
                /\ \A S \in Levels : WritesTo(l, S) = WritesTo(p, S)

\* A sublogger of a NOTICE logger has emitted a line and dropped a call.
C5_Witness ==
    /\ Len(loggers) = 2 /\ made[2].parent = 1
    /\ loggers[1].logLevel = LogNotice
    /\ ncalls = 2 /\ Len(files[loggers[2].destStream]) = 1
    /\ BeginsWith(files[loggers[2].destStream][1], RenderedChain(2))

\* C6: Printf on a Logger whose initialized flag is false acts as the default
\* logger (threshold DEBUG, os.Stderr, prefix "default"): the message is
\* written to stderr behind "[default] " and the receiver is initialized
\* afterwards.
C6_DefaultLoggerUsed ==
    [][\A l \in Ptrs, m \in Formats, S \in Levels :
          (CallPrintf(l, m, S) /\ ~loggers[l].initialized) =>
              /\ status' = "running"
              /\ loggers'[l].initialized
              /\ Len(files'[Stderr]) = Len(files[Stderr]) + 1
              /\ BeginsWith(files'[Stderr][Len(files'[Stderr])], "[default] ")]_vars

\* C7: Fatalf logs at LOG_CRIT and exits: on a logger whose threshold is at
\* least CRIT the message is written before the exit, and on every logger the
\* process has exited after the call.
C7_FatalfLogsAtCrit ==
    [][\A l \in Ptrs, m \in Formats :
          Fatalf(l, m) =>
              /\ status' = "exited"
              /\ (loggers[l].initialized /\ loggers[l].logLevel >= LogCrit) =>
                     /\ AppendsOneLine(loggers[l].destStream)
                     /\ EndsWith(files'[loggers[l].destStream]
                                     [Len(files'[loggers[l].destStream])],
                                 m \o "\n")]_vars

\* C8: no bufio.Writer holds data between calls, and lines reach a file in
\* the order of the calls: a step never changes or reorders the lines already
\* in a file, and a Printf that passes the filter puts its line (the calling
\* logger's prefix, then the message) at the end of the file in that step.
C8_FlushedInCallOrder ==
    /\ [](\A l \in Ptrs : loggers[l].writer.buf = <<>>)
    /\ [][/\ \A f \in Files : IsPrefixOf(files[f], files'[f])
          /\ \A l \in Ptrs, m \in Formats, S \in Levels :
                (PrintfCalled(l, m, S) /\ loggers[l].initialized
                    /\ S <= loggers[l].logLevel) =>
                    LET d == loggers[l].destStream
                        line == files'[d][Len(files'[d])]
                    IN  /\ Len(files'[d]) = Len(files[d]) + 1
                        /\ BeginsWith(line, RenderedChain(l))
                        /\ EndsWith(line, m \o "\n")]_vars

\* The sublogger's line is first and its parent's second, as they were called.
C8_Witness ==
    /\ Len(loggers) >= 2 /\ made[2].parent = 1
    /\ Len(files[loggers[1].destStream]) = 2
    /\ BeginsWith(files[loggers[1].destStream][1], RenderedChain(2))
    /\ BeginsWith(files[loggers[1].destStream][2], RenderedChain(1))
    /\ \A l \in Ptrs : loggers[l].writer.buf = <<>>

\* C10: NewSubLogger appends the new child, and nothing else, to the parent's
\* list and leaves the parent's other fields, the other loggers and the files
\* alone; a Printf changes no logger and adds at most one line, which carries
\* the calling logger's own prefix.
C10_ChildListOnly ==
    [][/\ \A l \in Ptrs, p \in Prefixes :
             (Len(made') = Len(made) + 1 /\ CallNewSubLogger(l, p)) =>
                 /\ Len(loggers') = Len(loggers) + 1
                 /\ loggers'[l].subloggers
                        = Append(loggers[l].subloggers, Len(loggers) + 1)
                 /\ loggers'[l]
                        = [loggers[l] EXCEPT !.subloggers = loggers'[l].subloggers]
                 /\ \A k \in Ptrs \ {l} : loggers'[k] = loggers[k]
                 /\ files' = files
       /\ \A l \in Ptrs, m \in Formats, S \in Levels :
             PrintfCalled(l, m, S) =>
                 /\ loggers' = loggers
                 /\ \/ files' = files
                    \/ \E d \in Files :
                          /\ AppendsOneLine(d)
                          /\ BeginsWith(files'[d][Len(files'[d])],
                                        loggers[l].logger.prefix)]_vars

\* A parent with two subloggers has emitted a line of its own.
C10_Witness ==
    /\ Len(loggers) = 3 /\ loggers[1].subloggers = <<2, 3>>
    /\ Len(files[loggers[1].destStream]) = 1
    /\ BeginsWith(files[loggers[1].destStream][1], RenderedChain(1))

====
